---- MODULE Spec2Model ----
(***************************************************************************)
(* Execution core of the Kosmos workflow engine                            *)
(* (src/kosmos/models/Execution.py): Execution.start, Execution.run, the   *)
(* scheduler loop (_run_ready_tasks, _process_finished_tasks),             *)
(* Execution.terminate and the SIGINT handler.                             *)
(*                                                                         *)
(* One state of the model is one point at which the single scheduler       *)
(* thread can be observed: run is cut at its commits, at every submit of   *)
(* an admission sweep and at every yield of _process_finished_tasks,       *)
(* which are also the points where SIGINT can interrupt it.  The execution *)
(* row (status, successful, finished_on, ...) is written through           *)
(* Execution.status, whose observer commits, so in every state of the      *)
(* model these fields are the committed ones.                              *)
(***************************************************************************)
EXTENDS Integers, FiniteSets, Sequences, TLC

\* ---------------------------------------------------------------- bounds
NumTasks == 2
MaxCpuReq == 2
MaxCpus == 3
MaxRuns == 2
MaxNoop == 1
MaxSoft == 1

Tasks == 1..NumTasks
\* max_cpus = None
NULL == -1
\* profile without an exit_status
NOEXIT == -1
Dirs == {"out1", "out2"}
\* task_log_output_dir functions a caller can pass: the default one
\* (one directory per task id), one that puts every task in one directory
\* and one that gives each task the default directory of another task
LogDirFns == {"default", "flat", "reverse"}

VARIABLES
  \* the recipe, as render_recipe renders it (the same in every run)
  edges, cpu_req, must_succeed, NOOP,
  \* the file system
  disk,
  \* the execution row
  exists, ex_id, output_dir, max_cpus, status, successful, started_on, finished_on,
  \* the task rows and objects
  taskRows, tstatus, tsucc, exit_status, log_dir,
  \* the JobManager
  jobmanager, running_tasks, done, jmTerminateCalls,
  \* the process: where run is, its locals and the signal handler
  pc, mode, dry, handler, task_queue, sweepLeft, batch, cur,
  \* history
  runs, skipped, nsubmit, before

vars == <<edges, cpu_req, must_succeed, NOOP, disk,
          exists, ex_id, output_dir, max_cpus, status, successful, started_on, finished_on,
          taskRows, tstatus, tsucc, exit_status, log_dir,
          jobmanager, running_tasks, done, jmTerminateCalls,
          pc, mode, dry, handler, task_queue, sweepLeft, batch, cur,
          runs, skipped, nsubmit, before>>

recipeVars == <<edges, cpu_req, must_succeed, NOOP>>
exVars == <<exists, ex_id, output_dir, max_cpus, status, successful, started_on, finished_on>>
taskVars == <<taskRows, tstatus, tsucc, exit_status, log_dir>>
jmVars == <<jobmanager, running_tasks, done, jmTerminateCalls>>

Terminal == {"successful", "failed", "killed"}
\* the process has ended (normally or by an exception reaching the caller)
ProcessOver == {"returned", "raised", "exited", "asserted"}

\* ---------------------------------------------------------------- helpers
RECURSIVE SumCpu(_)
SumCpu(S) ==
  IF S = {} THEN 0
  ELSE LET t == CHOOSE x \in S : TRUE IN cpu_req[t] + SumCpu(S \ {t})

\* task_queue.in_degree()[t]
in_degree(q, t) == Cardinality({u \in q : <<u, t>> \in edges})

ready_mut(q) == {t \in q : tstatus[t] = "no_attempt"}
\* ready_tasks of _run_ready_tasks
ready(q) == {t \in q : in_degree(q, t) = 0 /\ tstatus[t] = "no_attempt"}

over_budget_mut(t, cores_used, mc) == mc # NULL /\ cores_used > mc
\* the admission test of _run_ready_tasks
over_budget(t, cores_used, mc) == mc # NULL /\ cpu_req[t] + cores_used > mc

next_candidates_mut(S) == S
\* the candidates sorted(ready_tasks, key=cpu_req) can yield next
next_candidates(S) == {t \in S : \A u \in S : cpu_req[t] <= cpu_req[u]}

queue_nodes_mut(nodes, succ) == nodes
\* task_queue after remove_nodes_from(successful)
queue_nodes(nodes, succ) == nodes \ succ

resume_deleted_mut(rows) == {t \in rows : tstatus[t] = "failed"}
\* the tasks start deletes when resuming: tasksq.filter_by(successful=False)
resume_deleted(rows) == {t \in rows : ~tsucc[t]}

ctrl_c_guard_mut(succ) == TRUE
\* the test of the SIGINT handler
ctrl_c_guard(succ) == ~succ

finished_ok_mut(t) == exit_status[t] = 0
\* a finished task counts as successful
finished_ok(t) == exit_status[t] = 0 \/ t \in NOOP

set_status_mut(v, succ) ==
  /\ status' = v
  /\ finished_on' = IF v \in Terminal THEN finished_on + 1 ELSE finished_on
  /\ successful' = IF v = "successful" THEN TRUE ELSE succ
\* Execution.status setter and its observer _execution_status_changed;
\* succ is the value of ex.successful when the setter is called
set_status(v, succ) ==
  /\ status' = v
  /\ finished_on' = IF status # v /\ v \in Terminal THEN finished_on + 1 ELSE finished_on
  /\ successful' = IF status # v /\ v = "successful" THEN TRUE ELSE succ

terminate_mut ==
  /\ jmTerminateCalls' = jmTerminateCalls
  /\ set_status("killed", successful)
\* Execution.terminate: _process_finished_tasks is a generator that is
\* created but never iterated, so no finished task is processed here
terminate ==
  /\ jmTerminateCalls' = IF jobmanager THEN jmTerminateCalls + 1 ELSE jmTerminateCalls
  /\ set_status("killed", successful)

\* Task.status = failed raises ExecutionFailed for a task that must succeed
status_failed_raises(t) == t \in must_succeed

\* Task.status setter
task_set_status(t, v) ==
  /\ tstatus' = [tstatus EXCEPT ![t] = v]
  /\ tsucc' = [tsucc EXCEPT ![t] = (v = "successful") \/ @]

\* what a caller of start or run can compare after the call: the status and
\* max_cpus of the execution and its task rows
call_state == [status |-> status, max_cpus |-> max_cpus, taskRows |-> taskRows]

\* the objects of a process that has just begun: Execution.__init__
new_process ==
  /\ before' = call_state
  /\ jobmanager' = FALSE
  /\ running_tasks' = {}
  /\ done' = {}
  /\ jmTerminateCalls' = 0
  /\ handler' = FALSE
  /\ task_queue' = {}
  /\ sweepLeft' = {}
  /\ batch' = {}
  /\ cur' = 0
  /\ dry' = FALSE
  /\ skipped' = {}
  /\ nsubmit' = [t \in Tasks |-> 0]
  /\ runs' = runs + 1

\* ---------------------------------------------------------------- Init
Init ==
  /\ edges \in SUBSET {e \in Tasks \X Tasks : e[1] < e[2]}
  /\ cpu_req \in [Tasks -> 1..MaxCpuReq]
  /\ must_succeed \in {S \in SUBSET Tasks : Cardinality(Tasks \ S) <= MaxSoft}
  /\ NOOP \in {S \in SUBSET Tasks : Cardinality(S) <= MaxNoop}
  /\ disk = {"out2"}
  /\ exists = FALSE
  /\ ex_id = 0
  /\ output_dir = "out1"
  /\ max_cpus = NULL
  /\ status = "no_attempt"
  /\ successful = FALSE
  /\ started_on = FALSE
  /\ finished_on = 0
  /\ taskRows = {}
  /\ tstatus = [t \in Tasks |-> "no_attempt"]
  /\ tsucc = [t \in Tasks |-> FALSE]
  /\ exit_status = [t \in Tasks |-> NOEXIT]
  /\ log_dir = [t \in Tasks |-> 0]
  /\ jobmanager = FALSE
  /\ running_tasks = {}
  /\ done = {}
  /\ jmTerminateCalls = 0
  /\ pc = "nostart"
  /\ mode = "none"
  /\ dry = FALSE
  /\ handler = FALSE
  /\ task_queue = {}
  /\ sweepLeft = {}
  /\ batch = {}
  /\ cur = 0
  /\ runs = 0
  /\ skipped = {}
  /\ nsubmit = [t \in Tasks |-> 0]
  /\ before = [status |-> "no_attempt", max_cpus |-> NULL, taskRows |-> {}]

\* ---------------------------------------------------------------- start
CanStart == pc \in ProcessOver \cup {"nostart"} /\ runs < MaxRuns

\* the task objects of rows that no longer exist
forget(gone) ==
  /\ taskRows' = taskRows \ gone
  /\ tstatus' = [t \in Tasks |-> IF t \in gone THEN "no_attempt" ELSE tstatus[t]]
  /\ tsucc' = [t \in Tasks |-> IF t \in gone THEN FALSE ELSE tsucc[t]]
  /\ exit_status' = [t \in Tasks |-> IF t \in gone THEN NOEXIT ELSE exit_status[t]]
  /\ log_dir' = [t \in Tasks |-> IF t \in gone THEN 0 ELSE log_dir[t]]

\* Execution(id=old_id, name, output_dir, max_cpus) added and committed
create_row(id, od, mc) ==
  /\ exists' = TRUE
  /\ ex_id' = id
  /\ output_dir' = od
  /\ max_cpus' = mc
  /\ status' = "no_attempt"
  /\ successful' = FALSE
  /\ started_on' = FALSE
  /\ finished_on' = 0

\* the execution row after session.delete(ex)
delete_row ==
  /\ exists' = FALSE
  /\ ex_id' = 0
  /\ output_dir' = "out1"
  /\ max_cpus' = NULL
  /\ status' = "no_attempt"
  /\ successful' = FALSE
  /\ started_on' = FALSE
  /\ finished_on' = 0

\* start, no execution of that name: start from scratch
StartCreate(od, mc) ==
  /\ CanStart
  /\ ~exists
  /\ od \notin disk
  /\ disk' = disk \cup {od}
  /\ create_row(1, od, mc)
  /\ forget(Tasks)
  /\ new_process
  /\ pc' = "started"
  /\ mode' = "create"
  /\ UNCHANGED recipeVars

\* start from scratch, output_dir already exists: the assertion fails
StartCreateFails(od, mc) ==
  /\ CanStart
  /\ ~exists
  /\ od \in disk
  /\ new_process
  /\ pc' = "asserted"
  /\ mode' = "create"
  /\ UNCHANGED <<recipeVars, disk, exVars, taskVars>>

\* start, the execution exists and restart is false: resume
StartResume(od, mc) ==
  /\ CanStart
  /\ exists
  /\ od = output_dir
  /\ max_cpus' = mc
  /\ forget(resume_deleted(taskRows))
  /\ disk' = disk \cup {output_dir}
  /\ new_process
  /\ pc' = "started"
  /\ mode' = "resume"
  /\ UNCHANGED <<recipeVars, exists, ex_id, output_dir, status, successful, started_on, finished_on>>

\* resume with another output_dir: the assertion fails before the commit
StartResumeFails(od, mc) ==
  /\ CanStart
  /\ exists
  /\ od # output_dir
  /\ new_process
  /\ pc' = "asserted"
  /\ mode' = "resume"
  /\ UNCHANGED <<recipeVars, disk, exVars, taskVars>>

\* start with restart, the user does not confirm: SystemExit('Quitting')
StartRestartQuit ==
  /\ CanStart
  /\ exists
  /\ new_process
  /\ pc' = "exited"
  /\ mode' = "restart"
  /\ UNCHANGED <<recipeVars, disk, exVars, taskVars>>

\* start with restart: ex.delete(delete_output_dir=True), then from scratch
\* with the old id
StartRestart(od, mc) ==
  /\ CanStart
  /\ exists
  /\ od \notin disk \ {output_dir}
  /\ disk' = (disk \ {output_dir}) \cup {od}
  /\ create_row(ex_id, od, mc)
  /\ forget(Tasks)
  /\ new_process
  /\ pc' = "started"
  /\ mode' = "restart"
  /\ UNCHANGED recipeVars

\* restart into an output_dir that exists: the execution is deleted, then
\* the assertion of the from-scratch branch fails
StartRestartFails(od, mc) ==
  /\ CanStart
  /\ exists
  /\ od \in disk \ {output_dir}
  /\ disk' = disk \ {output_dir}
  /\ delete_row
  /\ forget(Tasks)
  /\ new_process
  /\ pc' = "asserted"
  /\ mode' = "restart"
  /\ UNCHANGED recipeVars

\* ---------------------------------------------------------------- run
\* taskgraph.render_recipe: the nodes of task_g; a task that has a row is
\* that row's object, the others are new with status no_attempt
render_nodes == Tasks

\* run up to self.status = running, whose observer commits
RunEnter(d) ==
  /\ pc = "started"
  /\ set_status("running", successful)
  /\ dry' = d
  /\ before' = call_state
  /\ pc' = "entered"
  /\ UNCHANGED <<recipeVars, disk, exists, ex_id, output_dir, max_cpus, started_on,
                 taskVars, jmVars, mode, handler, task_queue, sweepLeft, batch, cur,
                 runs, skipped, nsubmit>>

\* run from self.successful = False to the commit after terminate_on_ctrl_c
RunSetup ==
  /\ pc = "entered"
  /\ successful' = FALSE
  /\ jobmanager' = TRUE
  /\ running_tasks' = {}
  /\ done' = {}
  /\ jmTerminateCalls' = 0
  /\ started_on' = TRUE
  /\ taskRows' = taskRows \cup render_nodes
  /\ skipped' = {t \in render_nodes : tstatus[t] = "successful"}
  /\ task_queue' = queue_nodes(render_nodes, skipped')
  /\ handler' = TRUE
  /\ pc' = "setup"
  /\ UNCHANGED <<before, recipeVars, disk, exists, ex_id, output_dir, max_cpus, status, finished_on,
                 tstatus, tsucc, exit_status, log_dir, mode, dry, sweepLeft, batch, cur,
                 runs, nsubmit>>

\* task_log_output_dir(task) for the functions of LogDirFns
log_dir_of(f, t) ==
  CASE f = "default" -> t
    [] f = "flat" -> NumTasks + 1
    [] f = "reverse" -> NumTasks + 1 - t

duplicate_log_dir_mut(f) ==
  \E t \in task_queue : \E s \in skipped : log_dir[s] = log_dir_of(f, t)

\* the assertion on log_dirs fails for some task of the queue
duplicate_log_dir(f) ==
  \E t \in task_queue :
     \/ \E s \in skipped : log_dir[s] = log_dir_of(f, t)
     \/ \E u \in task_queue \ {t} : log_dir_of(f, u) = log_dir_of(f, t)

\* run: directories and commands of the new tasks, commit; a dry run
\* commits again and returns
RunDirs(f) ==
  /\ pc = "setup"
  /\ ~duplicate_log_dir(f)
  /\ log_dir' = [t \in Tasks |-> IF t \in task_queue THEN log_dir_of(f, t) ELSE log_dir[t]]
  /\ pc' = IF dry THEN "returned" ELSE "loop"
  /\ UNCHANGED <<before, recipeVars, disk, exVars, taskRows, tstatus, tsucc, exit_status, jmVars,
                 mode, dry, handler, task_queue, sweepLeft, batch, cur, runs, skipped, nsubmit>>

\* run: 'Duplicate log_dir detected', an AssertionError leaves run
RunDirsFails(f) ==
  /\ pc = "setup"
  /\ duplicate_log_dir(f)
  /\ pc' = "asserted"
  /\ UNCHANGED <<before, recipeVars, disk, exVars, taskVars, jmVars,
                 mode, dry, handler, task_queue, sweepLeft, batch, cur, runs, skipped, nsubmit>>

\* while len(task_queue) > 0 is false: status = successful, commit, return
LoopDrained ==
  /\ pc = "loop"
  /\ task_queue = {}
  /\ set_status("successful", successful)
  /\ pc' = "returned"
  /\ UNCHANGED <<before, recipeVars, disk, exists, ex_id, output_dir, max_cpus, started_on,
                 taskVars, jmVars, mode, dry, handler, task_queue, sweepLeft, batch, cur,
                 runs, skipped, nsubmit>>

\* _run_ready_tasks begins: ready_tasks is computed once
LoopSweep ==
  /\ pc = "loop"
  /\ task_queue # {}
  /\ sweepLeft' = ready(task_queue)
  /\ pc' = "sweep"
  /\ UNCHANGED <<before, recipeVars, disk, exVars, taskVars, jmVars,
                 mode, dry, handler, task_queue, batch, cur, runs, skipped, nsubmit>>

jm_submit_mut(t) ==
  /\ running_tasks' = running_tasks \cup {t}
  /\ task_set_status(t, tstatus[t])
  /\ nsubmit' = [nsubmit EXCEPT ![t] = @ + 1]

\* JobManager.submit
jm_submit(t) ==
  /\ running_tasks' = running_tasks \cup {t}
  /\ task_set_status(t, "submitted")
  /\ nsubmit' = [nsubmit EXCEPT ![t] = @ + 1]

\* _run_ready_tasks: the next candidate fits and is submitted
SweepSubmit(t) ==
  /\ pc = "sweep"
  /\ t \in next_candidates(sweepLeft)
  /\ ~over_budget(t, SumCpu(running_tasks), max_cpus)
  /\ jm_submit(t)
  /\ sweepLeft' = sweepLeft \ {t}
  /\ UNCHANGED <<before, recipeVars, disk, exVars, taskRows, exit_status, log_dir,
                 jobmanager, done, jmTerminateCalls,
                 pc, mode, dry, handler, task_queue, batch, cur, runs, skipped>>

\* _run_ready_tasks: the next candidate does not fit, break
SweepBreak(t) ==
  /\ pc = "sweep"
  /\ t \in next_candidates(sweepLeft)
  /\ over_budget(t, SumCpu(running_tasks), max_cpus)
  /\ pc' = "wait"
  /\ UNCHANGED <<before, recipeVars, disk, exVars, taskVars, jmVars,
                 mode, dry, handler, task_queue, sweepLeft, batch, cur, runs, skipped, nsubmit>>

\* _run_ready_tasks: no candidate is left
SweepEnd ==
  /\ pc = "sweep"
  /\ sweepLeft = {}
  /\ pc' = "wait"
  /\ UNCHANGED <<before, recipeVars, disk, exVars, taskVars, jmVars,
                 mode, dry, handler, task_queue, sweepLeft, batch, cur, runs, skipped, nsubmit>>

\* the DRM ends a running task with exit status es (none for NOOP tasks);
\* the scheduler sees a completion only through get_finished_tasks, so one
\* that happens while finished tasks are processed is the same as one that
\* happens during the next sweep
DRMFinish(t, es) ==
  /\ pc \in {"sweep", "wait"}
  /\ t \in running_tasks \ done
  /\ es \in IF t \in NOOP THEN {NOEXIT} ELSE {0, 1}
  /\ done' = done \cup {t}
  /\ exit_status' = [exit_status EXCEPT ![t] = es]
  /\ UNCHANGED <<before, recipeVars, disk, exVars, taskRows, tstatus, tsucc, log_dir,
                 jobmanager, running_tasks, jmTerminateCalls,
                 pc, mode, dry, handler, task_queue, sweepLeft, batch, cur, runs, skipped, nsubmit>>

\* JobManager.get_finished_tasks(at_least_one=True) returns: it blocks
\* while no task has finished
GetFinished ==
  /\ pc = "wait"
  /\ done # {}
  /\ batch' = done
  /\ done' = {}
  /\ running_tasks' = running_tasks \ done
  /\ pc' = "proc"
  /\ UNCHANGED <<before, recipeVars, disk, exVars, taskVars, jobmanager, jmTerminateCalls,
                 mode, dry, handler, task_queue, sweepLeft, cur, runs, skipped, nsubmit>>

\* _process_finished_tasks: the task succeeded; it is yielded and run
\* removes it from task_queue
ProcSuccess(t) ==
  /\ pc = "proc"
  /\ t \in batch
  /\ finished_ok(t)
  /\ task_set_status(t, "successful")
  /\ task_queue' = task_queue \ {t}
  /\ batch' = batch \ {t}
  /\ UNCHANGED <<before, recipeVars, disk, exVars, taskRows, exit_status, log_dir, jmVars,
                 pc, mode, dry, handler, sweepLeft, cur, runs, skipped, nsubmit>>

\* _process_finished_tasks: the task failed and need not succeed; it is
\* yielded first, and run removes it from task_queue
ProcSoftYield(t) ==
  /\ pc = "proc"
  /\ t \in batch
  /\ ~finished_ok(t)
  /\ t \notin must_succeed
  /\ task_queue' = task_queue \ {t}
  /\ cur' = t
  /\ pc' = "procResume"
  /\ UNCHANGED <<before, recipeVars, disk, exVars, taskVars, jmVars,
                 mode, dry, handler, sweepLeft, batch, runs, skipped, nsubmit>>

\* _process_finished_tasks resumes after the yield: status = failed
ProcSoftResume ==
  /\ pc = "procResume"
  /\ task_set_status(cur, "failed")
  /\ batch' = batch \ {cur}
  /\ cur' = 0
  /\ pc' = "proc"
  /\ UNCHANGED <<before, recipeVars, disk, exVars, taskRows, exit_status, log_dir, jmVars,
                 mode, dry, handler, task_queue, sweepLeft, runs, skipped, nsubmit>>

\* _process_finished_tasks: a must_succeed task failed; status = failed
\* raises ExecutionFailed, run calls terminate and raises again
ProcMustFail(t) ==
  /\ pc = "proc"
  /\ t \in batch
  /\ ~finished_ok(t)
  /\ t \in must_succeed
  /\ task_set_status(t, "failed")
  /\ status_failed_raises(t)
  /\ terminate
  /\ batch' = batch \ {t}
  /\ pc' = "raised"
  /\ UNCHANGED <<before, recipeVars, disk, exists, ex_id, output_dir, max_cpus, started_on,
                 taskRows, exit_status, log_dir, jobmanager, running_tasks, done,
                 mode, dry, handler, task_queue, sweepLeft, cur, runs, skipped, nsubmit>>

\* _process_finished_tasks is exhausted: back to the while test
ProcEnd ==
  /\ pc = "proc"
  /\ batch = {}
  /\ pc' = "loop"
  /\ UNCHANGED <<before, recipeVars, disk, exVars, taskVars, jmVars,
                 mode, dry, handler, task_queue, sweepLeft, batch, cur, runs, skipped, nsubmit>>

\* ---------------------------------------------------------------- SIGINT
\* the process is alive and terminate_on_ctrl_c has installed ctrl_c
CanSignal == handler /\ pc \notin {"exited", "asserted"}

after_ctrl_c_mut == pc
\* where the process is after ctrl_c: it raises SystemExit
after_ctrl_c == "exited"

\* ctrl_c: terminate, then SystemExit
Sigint ==
  /\ CanSignal
  /\ ctrl_c_guard(successful)
  /\ terminate
  /\ pc' = after_ctrl_c
  /\ UNCHANGED <<before, recipeVars, disk, exists, ex_id, output_dir, max_cpus, started_on,
                 taskVars, jobmanager, running_tasks, done,
                 mode, dry, handler, task_queue, sweepLeft, batch, cur, runs, skipped, nsubmit>>

\* ---------------------------------------------------------------- Next
Next ==
  \/ \E od \in Dirs, mc \in {NULL} \cup 0..MaxCpus : StartCreate(od, mc)
  \/ \E od \in Dirs, mc \in {NULL} \cup 0..MaxCpus : StartCreateFails(od, mc)
  \/ \E od \in Dirs, mc \in {NULL} \cup 0..MaxCpus : StartResume(od, mc)
  \/ \E od \in Dirs, mc \in {NULL} \cup 0..MaxCpus : StartResumeFails(od, mc)
  \/ StartRestartQuit
  \/ \E od \in Dirs, mc \in {NULL} \cup 0..MaxCpus : StartRestart(od, mc)
  \/ \E od \in Dirs, mc \in {NULL} \cup 0..MaxCpus : StartRestartFails(od, mc)
  \/ \E d \in BOOLEAN : RunEnter(d)
  \/ RunSetup
  \/ \E f \in LogDirFns : RunDirs(f)
  \/ \E f \in LogDirFns : RunDirsFails(f)
  \/ LoopDrained
  \/ LoopSweep
  \/ \E t \in Tasks : SweepSubmit(t)
  \/ \E t \in Tasks : SweepBreak(t)
  \/ SweepEnd
  \/ \E t \in Tasks, es \in {0, 1, NOEXIT} : DRMFinish(t, es)
  \/ GetFinished
  \/ \E t \in Tasks : ProcSuccess(t)
  \/ \E t \in Tasks : ProcSoftYield(t)
  \/ ProcSoftResume
  \/ \E t \in Tasks : ProcMustFail(t)
  \/ ProcEnd
  \/ Sigint

Spec == Init /\ [][Next]_vars

\* ---------------------------------------------------------------- claims
\* C1: whenever max_cpus is set, the cpu_req of the tasks in
\* JobManager.running_tasks add up to at most max_cpus.
CpuBudgetRespected == max_cpus # NULL => SumCpu(running_tasks) <= max_cpus

\* C1 witness: a sweep stopped at a candidate that did not fit beside the
\* tasks that are running
CpuBudgetReached ==
  /\ pc = "wait"
  /\ max_cpus # NULL
  /\ running_tasks # {}
  /\ sweepLeft # {}

\* C2: a task is submitted only when it is in the queue with in-degree 0,
\* none of its predecessors is still in the queue and its status is
\* no_attempt.
SubmittedOnlyWhenReady ==
  [][\A t \in Tasks :
       nsubmit'[t] > nsubmit[t] =>
         /\ t \in task_queue
         /\ tstatus[t] = "no_attempt"
         /\ \A u \in Tasks : <<u, t>> \in edges => u \notin task_queue]_vars

\* C2 witness: a task that has a predecessor in this run's queue was
\* submitted
DependentSubmitted ==
  \E e \in edges : e[1] \notin skipped /\ nsubmit[e[2]] > 0

\* C3: a must_succeed task that ended non-zero has status failed, the
\* execution is killed, and when run raises ExecutionFailed
\* JobManager.terminate() has been called exactly once.
MustSucceedFailureKills ==
  /\ (\E t \in must_succeed : tstatus[t] = "failed") =>
        status = "killed" /\ pc \in {"raised", "exited", "asserted"}
  /\ pc = "raised" =>
        /\ \E t \in must_succeed \ NOOP : tstatus[t] = "failed" /\ exit_status[t] = 1
        /\ status = "killed"
        /\ jmTerminateCalls = 1

\* C3 witness: run has raised ExecutionFailed
ExecutionFailedRaised == pc = "raised"

\* C4: a run that is not dry and drained its graph after a task that need
\* not succeed failed ends with status failed, successful false.
SoftFailureEndsFailed ==
  (pc = "returned" /\ ~dry /\ \E t \in Tasks \ must_succeed : tstatus[t] = "failed") =>
     (status = "failed" /\ ~successful)

\* C5: the tasks that are successful when run begins are not in the queue
\* and are not submitted in that run, and a run that finds every task
\* successful adds no task row.
SuccessfulTasksSkipped ==
  /\ [](\A t \in skipped :
          t \notin task_queue /\ nsubmit[t] = 0 /\ tstatus[t] = "successful")
  /\ [][(pc = "entered" /\ pc' = "setup" /\ \A t \in Tasks : tstatus[t] = "successful")
          => (taskRows' = taskRows /\ task_queue' = {})]_vars

\* C5 witness: a resumed run skipped a task, ran the rest and returned
ResumedRunSkipped ==
  /\ pc = "returned"
  /\ ~dry
  /\ skipped # {}
  /\ \E t \in Tasks : nsubmit[t] > 0

\* C6: start in resume mode deletes the task rows with successful = false,
\* keeps the others, and keeps the execution's id and output_dir.
ResumeDeletesUnsuccessful ==
  [][(mode' = "resume" /\ pc' = "started" /\ pc # "started") =>
       /\ taskRows' = {t \in taskRows : tsucc[t]}
       /\ exists'
       /\ ex_id' = ex_id
       /\ output_dir' = output_dir]_vars

\* C6 witness: a resume kept one task and deleted another
ResumeKeptSome ==
  /\ mode = "resume"
  /\ pc = "started"
  /\ taskRows # {}
  /\ taskRows # Tasks

\* C7: the scheduler never waits for a completion while no task is in
\* flight.
NeverWaitsWithNothingInFlight == ~(pc = "wait" /\ running_tasks = {})

\* C8: with max_cpus null or 0 a sweep rejects no candidate: when it is
\* over, no ready task is left unsubmitted.
UnboundedWhenNullOrZero ==
  (pc = "wait" /\ max_cpus \in {NULL, 0}) => sweepLeft = {}

\* a step that keeps the execution row: restart replaces it by a new one
SameExecution == exists /\ exists' /\ ~(mode' = "restart" /\ runs' # runs)

\* C9, as stated: the stored status of an execution only moves no_attempt
\* -> running -> {successful, failed, killed}, resume included.
StatusMonotonic ==
  [][(SameExecution /\ status' # status) =>
       \/ status = "no_attempt" /\ status' = "running"
       \/ status = "running" /\ status' \in Terminal]_vars

\* C9, amended: the stored status changes only to running at the entry of
\* run, whatever it was, and from running to a terminal status; it never
\* moves from one terminal status to another.
StatusMonotonicWithinRun ==
  [][(SameExecution /\ status' # status) =>
       \/ pc = "started" /\ status' = "running"
       \/ status = "running" /\ status' \in Terminal]_vars

\* C9 witness: run has set a resumed execution that had finished back to
\* running
ResumedBackToRunning == status = "running" /\ finished_on > 0 /\ mode = "resume"

\* C10: successful is true exactly when status is successful.
SuccessfulIffStatus == exists => (successful <=> status = "successful")

\* C11: finished_on is set exactly when the status is successful, failed
\* or killed.
FinishedOnIffTerminal == exists => (finished_on > 0 <=> status \in Terminal)

\* C12: once terminate() has been called in a process (from ctrl_c or from
\* the ExecutionFailed path), JobManager.terminate() has been called, the
\* status is killed, run is over and no task is submitted any more.
NoSubmitAfterTerminate ==
  /\ [](jmTerminateCalls > 0 => (status = "killed" /\ pc \in {"raised", "exited"}))
  /\ [][(jmTerminateCalls > 0 /\ runs' = runs) =>
          (running_tasks' = running_tasks /\ nsubmit' = nsubmit)]_vars

\* C12 witness: SIGINT ended run in the middle of a sweep, with a task
\* submitted and a candidate still to come
SigintMidSweep ==
  /\ pc = "exited"
  /\ jmTerminateCalls = 1
  /\ running_tasks # {}
  /\ sweepLeft # {}
  /\ \E t \in sweepLeft : ~over_budget(t, SumCpu(running_tasks), max_cpus)

\* a configuration error of the three kinds the claim names: the assertion
\* of a start from scratch, of a resume, or of run (not the one that follows
\* the deletion done by a restart)
ConfigError == pc = "asserted" /\ ~(mode = "restart" /\ ~handler)

\* C13: a configuration error is raised before any task is submitted and
\* leaves the status, max_cpus and task rows as they were before the call.
ConfigErrorChangesNothing ==
  ConfigError => (call_state = before /\ \A t \in Tasks : nsubmit[t] = 0)

\* C14: when run is left by an error other than ExecutionFailed (the
\* assertion on log_dir), terminate() has been called and the status is
\* not running.
RunAbortTerminates ==
  (pc = "asserted" /\ handler) => (status # "running" /\ jmTerminateCalls > 0)

\* C15: whenever run removes a task from the queue, the status of that
\* task is successful or failed.
RemovedOnlyWhenTerminal ==
  [][runs' = runs =>
       \A t \in task_queue \ task_queue' : tstatus'[t] \in {"successful", "failed"}]_vars

\* C16: when terminate() is called, every task the DRM has finished and
\* the scheduler has not processed gets its status: successful on exit
\* status 0 or NOOP, failed otherwise.
TerminateDrainsFinished ==
  [][jmTerminateCalls' > jmTerminateCalls =>
       \A t \in done :
          tstatus'[t] = IF exit_status[t] = 0 \/ t \in NOOP THEN "successful" ELSE "failed"]_vars

\* C17: within a run a task's status moves only no_attempt -> submitted,
\* then to successful when the exit status is 0 or the task is NOOP and to
\* failed otherwise (or no_attempt -> successful directly); a status that
\* is successful or failed does not change.
TaskStatusTransitions ==
  [][runs' = runs =>
       \A t \in Tasks :
          tstatus'[t] # tstatus[t] =>
            \/ tstatus[t] = "no_attempt" /\ tstatus'[t] = "submitted"
            \/ /\ tstatus[t] \in {"no_attempt", "submitted"}
               /\ tstatus'[t] = "successful"
               /\ (exit_status[t] = 0 \/ t \in NOOP)
            \/ /\ tstatus[t] = "submitted"
               /\ tstatus'[t] = "failed"
               /\ ~(exit_status[t] = 0 \/ t \in NOOP)]_vars

\* C17 witness: in one run a NOOP task became successful without an exit
\* status and another task failed
NoopSucceededOtherFailed ==
  /\ \E t \in NOOP : tstatus[t] = "successful" /\ exit_status[t] = NOEXIT /\ nsubmit[t] = 1
  /\ \E u \in Tasks : tstatus[u] = "failed" /\ exit_status[u] = 1

\* C18: in a sweep every submitted task has the least cpu_req of the
\* candidates not yet submitted (ascending order), and when the sweep is
\* over every ready task it did not submit has cpu_req + in-flight CPUs >
\* max_cpus.
AscendingSweepLeavesNoFit ==
  /\ [](pc = "wait" =>
          \A t \in sweepLeft :
             max_cpus # NULL /\ cpu_req[t] + SumCpu(running_tasks) > max_cpus)
  /\ [][\A t \in Tasks :
          nsubmit'[t] > nsubmit[t] =>
            (t \in sweepLeft /\ \A u \in sweepLeft : cpu_req[t] <= cpu_req[u])]_vars

\* C18 witness: a sweep submitted a small task and stopped at a larger one
SmallSubmittedLargeRejected ==
  /\ pc = "wait"
  /\ \E t \in running_tasks, u \in sweepLeft :
        cpu_req[t] < cpu_req[u] /\ cpu_req[u] <= max_cpus

\* C19: a call of terminate() after an earlier one leaves the status
\* killed and finished_on and every task status as they were.
TerminateIdempotent ==
  [][(jmTerminateCalls > 0 /\ jmTerminateCalls' > jmTerminateCalls) =>
       /\ status = "killed"
       /\ status' = "killed"
       /\ finished_on' = finished_on
       /\ successful' = successful
       /\ tstatus' = tstatus
       /\ tsucc' = tsucc]_vars

\* C19 witness: SIGINT arrived after the ExecutionFailed path had
\* terminated, and terminate() ran a second time
TerminatedTwice == jmTerminateCalls = 2 /\ pc = "exited"

\* C20: the log_dir values that tasks have are pairwise distinct, every
\* task has one once run has passed the directory assignment, and when the
\* assertion on log_dir ends run no task has been submitted.
LogDirsDistinct ==
  /\ \A t \in Tasks, u \in Tasks :
        (t # u /\ log_dir[t] # 0) => log_dir[t] # log_dir[u]
  /\ pc \in {"loop", "sweep", "wait", "proc", "procResume", "returned", "raised"} =>
        \A t \in Tasks : log_dir[t] # 0
  /\ (pc = "asserted" /\ handler) => \A t \in Tasks : nsubmit[t] = 0

\* C20 witness: a resumed run gave a new task a directory from a function
\* other than the default, beside a task that was successful before
NewDirBesideSuccessful ==
  /\ pc = "loop"
  /\ skipped # {}
  /\ \E t \in task_queue : log_dir[t] # t

\* C21: within one run each task is submitted to the JobManager at most
\* once: a task that is in flight is no candidate of a sweep, and a submit
\* takes a task that is not in flight and was not submitted before.
SubmittedAtMostOnce ==
  /\ [](\A t \in Tasks : nsubmit[t] <= 1)
  /\ [](sweepLeft \cap running_tasks = {})
  /\ [][\A t \in Tasks :
          nsubmit'[t] > nsubmit[t] =>
            (t \notin running_tasks /\ tstatus[t] = "no_attempt" /\ nsubmit[t] = 0)]_vars

\* C21 witness: a later sweep has begun while a task submitted by an earlier
\* sweep is still in flight with in-degree 0
LaterSweepWithTaskInFlight ==
  /\ pc = "sweep"
  /\ \E t \in running_tasks \cap task_queue :
        /\ in_degree(task_queue, t) = 0
        /\ tstatus[t] = "submitted"
        /\ nsubmit[t] = 1
  /\ \E u \in Tasks \ task_queue : nsubmit[u] = 1

====
